---------------------------- MODULE Spec2Model ----------------------------
(***************************************************************************)
(* Store monitoring: the uptime/downtime estimation engine of main.py,     *)
(* its report task and its two endpoints (main_simple.py holds the same    *)
(* code, line for line).                                                   *)
(*                                                                         *)
(* Time is counted in whole minutes since a Monday 00:00 UTC, so a naive   *)
(* UTC datetime is an integer t, t.date() is t \div 1440 and               *)
(* date.weekday() is (t \div 1440) % 7 with 0 = Monday.  A "HH:MM" string  *)
(* is a tuple of one-character strings, parsed as strptime parses it.      *)
(* A number the code returns is a fraction [num, den]; a report row holds  *)
(* its values in hundredths, as round(x, 2) leaves them.                   *)
(***************************************************************************)
EXTENDS Integers, Sequences, FiniteSets, TLC

VARIABLES
    store_status,     \* table store_status, rows in id order
    store_hours,      \* table store_hours, rows in id order
    store_timezone,   \* table store_timezone, rows in id order
    MAX_TIMESTAMP,    \* the module global: None or a datetime
    imported,         \* import_csv_data has run (startup is over)
    pc,               \* generate_report: "idle", "running" or "done"
    store_ids,        \* generate_report: the store ids still to visit
    report_data,      \* generate_report: the rows appended so far
    calls,            \* generate_report: None, or the store of the last pass
                      \* of the loop and the locals of its three
                      \* calculate_uptime_downtime calls
    call,             \* the last direct call of an engine function: None,
                      \* or the function, its arguments and the outcome
    reports,          \* table reports: per report id None or the record
    files,            \* report_<id>.csv: per report id None or its content
    tasks,            \* per report id, the locals of its generate_report
                      \* background task
    response          \* the last HTTP response: None, or the endpoint, the
                      \* report id and the answer

vars == <<store_status, store_hours, store_timezone, MAX_TIMESTAMP,
          imported, pc, store_ids, report_data, calls, call,
          reports, files, tasks, response>>

jobs == <<reports, files, tasks, response>>

\* An optional value: None, or a one-element tuple holding the value.
None == <<>>
Some(x) == <<x>>
Get(opt) == opt[1]

-----------------------------------------------------------------------------
(* Datetimes, dates and timedeltas, in minutes.                            *)

MinutesPerHour == 60
HoursPerDay == 24
MinutesPerDay == HoursPerDay * MinutesPerHour
DaysPerWeek == 7

At(day, hh, mm) == day * MinutesPerDay + hh * MinutesPerHour + mm

Date(t) == t \div MinutesPerDay
Weekday(date) == date % DaysPerWeek
TimeOfDay(t) == t % MinutesPerDay

-----------------------------------------------------------------------------
(* datetime.strptime(s, "%H:%M").time(): %H is one or two digits with a    *)
(* value 0..23, then a colon, then %M, one or two digits with a value      *)
(* 0..59, and nothing may remain.  Anything else raises ValueError.        *)

Digits == {"0", "1", "2", "3", "4", "5", "6", "7", "8", "9"}

DigitValue(c) ==
    CASE c = "0" -> 0 [] c = "1" -> 1 [] c = "2" -> 2 [] c = "3" -> 3
      [] c = "4" -> 4 [] c = "5" -> 5 [] c = "6" -> 6 [] c = "7" -> 7
      [] c = "8" -> 8 [] c = "9" -> 9

\* a field of one or two digits
IsField(s) == Len(s) \in {1, 2} /\ \A i \in 1..Len(s) : s[i] \in Digits

RECURSIVE Number(_)
Number(s) ==
    IF s = <<>> THEN 0
    ELSE 10 * Number(SubSeq(s, 1, Len(s) - 1)) + DigitValue(s[Len(s)])

ParseRaises == [ok |-> FALSE, hour |-> 0, minute |-> 0]

Colons(s) == {i \in 1..Len(s) : s[i] = ":"}

ParsedTime(hour, minute) ==
    IF hour < HoursPerDay /\ minute < MinutesPerHour
    THEN [ok |-> TRUE, hour |-> hour, minute |-> minute]
    ELSE ParseRaises

ParseFields(h, m) ==
    IF IsField(h) /\ IsField(m) THEN ParsedTime(Number(h), Number(m))
    ELSE ParseRaises

SplitAt(s, c) == ParseFields(SubSeq(s, 1, c - 1), SubSeq(s, c + 1, Len(s)))

strptime_HM(s) ==
    IF Cardinality(Colons(s)) # 1 THEN ParseRaises
    ELSE SplitAt(s, CHOOSE c \in Colons(s) : TRUE)

\* time.__gt__ / __le__ on (hour, minute): compared as minutes of the day
TimeValue(tm) == tm.hour * MinutesPerHour + tm.minute

-----------------------------------------------------------------------------
(* pytz.timezone(name) and astimezone.  Every instant of the model lies in *)
(* one winter fortnight, so a zone is its standard offset from UTC in      *)
(* minutes; a name pytz does not know raises UnknownTimeZoneError.         *)

DefaultZone == "America/Chicago"

ZoneNames == {"UTC", "America/Chicago", "Asia/Tokyo"}

UtcOffset(name) ==
    CASE name = "UTC" -> 0
      [] name = "America/Chicago" -> 0 - 6 * MinutesPerHour
      [] name = "Asia/Tokyo" -> 9 * MinutesPerHour

pytz_timezone(name) ==
    IF name \in ZoneNames THEN [ok |-> TRUE, offset |-> UtcOffset(name)]
    ELSE [ok |-> FALSE, offset |-> 0]

\* timestamp_utc.replace(tzinfo=pytz.UTC).astimezone(local_tz), as a naive
\* local datetime
astimezone(timestamp_utc, local_tz) == timestamp_utc + local_tz.offset

-----------------------------------------------------------------------------
(* Queries.  .first() is the matching row of lowest id; order_by sorts by  *)
(* timestamp and leaves rows of equal timestamp in id order.               *)

First(rows) == IF rows = <<>> THEN None ELSE Some(rows[1])

TimezoneRecord(store_id) ==
    LET Match(r) == r.store_id = store_id
    IN  First(SelectSeq(store_timezone, Match))

HoursRecord(store_id, day_of_week) ==
    LET Match(r) == r.store_id = store_id /\ r.day_of_week = day_of_week
    IN  First(SelectSeq(store_hours, Match))

RECURSIVE Insert(_, _)
Insert(sorted, r) ==
    IF sorted = <<>> THEN <<r>>
    ELSE IF r.timestamp_utc < Head(sorted).timestamp_utc
         THEN <<r>> \o sorted
         ELSE <<Head(sorted)>> \o Insert(Tail(sorted), r)

\* mutant: the rows are left in id order
OrderByTimestampUnsorted(rows) == rows

RECURSIVE OrderByTimestamp(_)
OrderByTimestamp(rows) ==
    IF rows = <<>> THEN <<>>
    ELSE Insert(OrderByTimestamp(SubSeq(rows, 1, Len(rows) - 1)),
                rows[Len(rows)])

StatusRecords(store_id) ==
    LET Match(r) == r.store_id = store_id
    IN  OrderByTimestamp(SelectSeq(store_status, Match))

-----------------------------------------------------------------------------
(* is_store_open.  The body of the try block either returns a boolean or   *)
(* raises; the except clause logs and returns True.  Each operator below   *)
(* is the rest of the body once the local it is given has been assigned.   *)

Returns(v) == [raised |-> FALSE, value |-> v]
Raises == [raised |-> TRUE, value |-> FALSE]

\* mutant: the closing minute is not open
WithinHoursEndExclusive(current_time, start_time, end_time) ==
    IF start_time > end_time
    THEN current_time >= start_time \/ current_time < end_time
    ELSE start_time <= current_time /\ current_time < end_time

\* the comparison of the three times, overnight hours first
WithinHours(current_time, start_time, end_time) ==
    IF start_time > end_time
    THEN current_time >= start_time \/ current_time <= end_time
    ELSE start_time <= current_time /\ current_time <= end_time

OpenBetween(start_time, end_time, current_time) ==
    IF ~start_time.ok \/ ~end_time.ok THEN Raises
    ELSE Returns(WithinHours(current_time, TimeValue(start_time),
                             TimeValue(end_time)))

\* mutant: a day without hours is a closed day
NoHoursClosed == Returns(FALSE)

\* "If no hours specified, store is open 24/7"
NoHours == Returns(TRUE)

OpenForRecord(hours_record, current_time) ==
    IF hours_record = None THEN NoHours
    ELSE OpenBetween(strptime_HM(Get(hours_record).start_time_local),
                     strptime_HM(Get(hours_record).end_time_local),
                     current_time)

OpenAtLocal(store_id, local_time) ==
    OpenForRecord(HoursRecord(store_id, Weekday(Date(local_time))),
                  TimeOfDay(local_time))

OpenInZone(store_id, timestamp_utc, local_tz) ==
    IF ~local_tz.ok THEN Raises
    ELSE OpenAtLocal(store_id, astimezone(timestamp_utc, local_tz))

TimezoneStr(timezone_record) ==
    IF timezone_record # None THEN Get(timezone_record).timezone_str
    ELSE DefaultZone

is_store_open_try(store_id, timestamp_utc) ==
    OpenInZone(store_id, timestamp_utc,
               pytz_timezone(TimezoneStr(TimezoneRecord(store_id))))

\* mutant: an error closes the store
is_store_open_except_closed == Returns(FALSE)

is_store_open_except == Returns(TRUE)

Handled(outcome) == IF outcome.raised THEN is_store_open_except ELSE outcome

is_store_open_outcome(store_id, timestamp_utc) ==
    Handled(is_store_open_try(store_id, timestamp_utc))

is_store_open(store_id, timestamp_utc) ==
    is_store_open_outcome(store_id, timestamp_utc).value

-----------------------------------------------------------------------------
(* calculate_uptime_downtime.  Each operator is the rest of the body once  *)
(* the locals it is given have been assigned.                              *)

\* a returned number num/den: minutes have den = 1, hours den = 60
Frac(num, den) == [num |-> num, den |-> den]
Zero == Frac(0, 1)

\* the locals of a call at its return; exit names the return statement
Locals(exit, ret, records, open_records, period_records, dates, total, uptime) ==
    [exit |-> exit, ret |-> ret,
     status_records |-> records,
     business_hours_records |-> open_records,
     period_records |-> period_records,
     dates |-> dates,
     total_business_minutes |-> total,
     uptime_minutes |-> uptime]

\* timedelta(hours=1), timedelta(days=1), timedelta(weeks=1); no branch
\* for any other period
Timedelta(time_period) ==
    CASE time_period = "hour" -> Some(MinutesPerHour)
      [] time_period = "day" -> Some(MinutesPerDay)
      [] time_period = "week" -> Some(DaysPerWeek * MinutesPerDay)
      [] OTHER -> None

\* the for loop that keeps the records is_store_open accepts, from index i
\* on; a raise out of is_store_open would leave the loop
RECURSIVE FilterLoop(_, _, _, _)
RECURSIVE FilterStep(_, _, _, _, _)
FilterStep(store_id, status_records, i, business_hours_records, outcome) ==
    IF outcome.raised
    THEN [raised |-> TRUE, records |-> business_hours_records]
    ELSE FilterLoop(store_id, status_records, i + 1,
                    IF outcome.value
                    THEN Append(business_hours_records, status_records[i])
                    ELSE business_hours_records)

FilterLoop(store_id, status_records, i, business_hours_records) ==
    IF i > Len(status_records)
    THEN [raised |-> FALSE, records |-> business_hours_records]
    ELSE FilterStep(store_id, status_records, i, business_hours_records,
                    is_store_open_outcome(store_id,
                                          status_records[i].timestamp_utc))

\* mutant: the window is not applied
InPeriodAlways(r, start_time) == TRUE

\* mutant: the last record before the window is carried into it
PeriodRecordsCarryIn(business_hours_records, start_time) ==
    LET Carried(r) ==
            \/ r.timestamp_utc >= start_time
            \/ \A i \in 1..Len(business_hours_records) :
                   business_hours_records[i].timestamp_utc < start_time =>
                       business_hours_records[i].timestamp_utc
                         <= r.timestamp_utc
    IN  SelectSeq(business_hours_records, Carried)

\* the test of the list comprehension that builds period_records
InPeriod(r, start_time) == r.timestamp_utc >= start_time

PeriodRecords(business_hours_records, start_time) ==
    LET Recent(r) == InPeriod(r, start_time)
    IN  SelectSeq(business_hours_records, Recent)

\* mutant: an overnight entry is not wrapped over midnight
DayMinutesSameDay(start_time_local, end_time_local) ==
    end_time_local.hour * MinutesPerHour + end_time_local.minute
      - start_time_local.hour * MinutesPerHour - start_time_local.minute

\* business minutes of one schedule entry, both strings parsed
DayMinutes(start_time_local, end_time_local) ==
    IF TimeValue(start_time_local) > TimeValue(end_time_local)
    THEN HoursPerDay * MinutesPerHour
           - start_time_local.hour * MinutesPerHour - start_time_local.minute
           + end_time_local.hour * MinutesPerHour + end_time_local.minute
    ELSE end_time_local.hour * MinutesPerHour + end_time_local.minute
           - start_time_local.hour * MinutesPerHour - start_time_local.minute

\* the while loop over current_date: the dates visited and the minutes
\* summed, or a raise from strptime
RECURSIVE BusinessMinutesLoop(_, _, _, _, _)
RECURSIVE BusinessDay(_, _, _, _, _, _)
RECURSIVE BusinessEntry(_, _, _, _, _, _, _)
BusinessEntry(store_id, current_date, end_date, total, dates, start_time_local, end_time_local) ==
    IF ~start_time_local.ok \/ ~end_time_local.ok
    THEN [raised |-> TRUE, total_business_minutes |-> total,
          dates |-> Append(dates, current_date)]
    ELSE BusinessMinutesLoop(
             store_id, current_date + 1, end_date,
             total + DayMinutes(start_time_local, end_time_local),
             Append(dates, current_date))

BusinessDay(store_id, current_date, end_date, total, dates, hours_record) ==
    IF hours_record # None
    THEN BusinessEntry(store_id, current_date, end_date, total, dates,
                       strptime_HM(Get(hours_record).start_time_local),
                       strptime_HM(Get(hours_record).end_time_local))
    ELSE BusinessMinutesLoop(store_id, current_date + 1, end_date,
                             total + HoursPerDay * MinutesPerHour,
                             Append(dates, current_date))

BusinessMinutesLoop(store_id, current_date, end_date, total, dates) ==
    IF ~(current_date <= end_date)
    THEN [raised |-> FALSE, total_business_minutes |-> total, dates |-> dates]
    ELSE BusinessDay(store_id, current_date, end_date, total, dates,
                     HoursRecord(store_id, Weekday(current_date)))

\* mutant: every active record is carried forward to current_time
RECURSIVE UptimeLoopToNow(_, _, _)
UptimeLoopToNow(period_records, i, current_time) ==
    IF i > Len(period_records) THEN 0
    ELSE (IF period_records[i].status = "active"
          THEN current_time - period_records[i].timestamp_utc ELSE 0)
           + UptimeLoopToNow(period_records, i + 1, current_time)

\* mutant: the next observation is not looked at
NextTimeAlwaysNow(period_records, i, current_time) == current_time

NextTime(period_records, i, current_time) ==
    IF i < Len(period_records) THEN period_records[i + 1].timestamp_utc
    ELSE current_time

\* the enumerate loop over period_records, from index i on
RECURSIVE UptimeLoop(_, _, _)
UptimeLoop(period_records, i, current_time) ==
    IF i > Len(period_records) THEN 0
    ELSE (IF period_records[i].status = "active"
          THEN NextTime(period_records, i, current_time)
                 - period_records[i].timestamp_utc
          ELSE 0)
           + UptimeLoop(period_records, i + 1, current_time)

\* the unit conversion at the two final returns
Convert(time_period, uptime_minutes, downtime_minutes) ==
    IF time_period = "hour"
    THEN <<Frac(uptime_minutes, 1), Frac(downtime_minutes, 1)>>
    ELSE <<Frac(uptime_minutes, MinutesPerHour),
           Frac(downtime_minutes, MinutesPerHour)>>

\* mutant: a negative downtime is clamped to 0
DowntimeClamped(total_business_minutes, uptime_minutes) ==
    IF total_business_minutes - uptime_minutes < 0 THEN 0
    ELSE total_business_minutes - uptime_minutes

Downtime(total_business_minutes, uptime_minutes) ==
    total_business_minutes - uptime_minutes

\* mutant: the except clause returns something other than 0, 0
calculate_except_leak == <<Frac(1, 1), Zero>>

\* the except clause of calculate_uptime_downtime: log, return 0, 0
calculate_except == <<Zero, Zero>>

\* from "downtime_minutes = ..." to the final return, or the except clause
\* when the while loop raised
CalcTotals(time_period, status_records, business_hours_records, period_records, loop, uptime_minutes) ==
    IF loop.raised
    THEN Locals("except", calculate_except, status_records,
                business_hours_records, period_records, loop.dates,
                loop.total_business_minutes, 0)
    ELSE Locals("return",
                Convert(time_period, uptime_minutes,
                        Downtime(loop.total_business_minutes,
                                 uptime_minutes)),
                status_records, business_hours_records, period_records,
                loop.dates, loop.total_business_minutes, uptime_minutes)

\* from "if not period_records" on
CalcPeriodRecords(store_id, time_period, status_records, business_hours_records, current_time, start_time, period_records) ==
    IF period_records = <<>>
    THEN Locals("no_period_records", <<Zero, Zero>>, status_records,
                business_hours_records, <<>>, <<>>, 0, 0)
    ELSE CalcTotals(time_period, status_records, business_hours_records,
                    period_records,
                    BusinessMinutesLoop(store_id, Date(start_time),
                                        Date(current_time), 0, <<>>),
                    UptimeLoop(period_records, 1, current_time))

\* from "current_time = MAX_TIMESTAMP" on
CalcWindow(store_id, time_period, status_records, business_hours_records, current_time, delta) ==
    IF delta = None
    THEN Locals("no_period", <<Zero, Zero>>, status_records,
                business_hours_records, <<>>, <<>>, 0, 0)
    ELSE CalcPeriodRecords(store_id, time_period, status_records,
                           business_hours_records, current_time,
                           current_time - Get(delta),
                           PeriodRecords(business_hours_records,
                                         current_time - Get(delta)))

\* from "if not business_hours_records" on, or the except clause when the
\* for loop raised
CalcBusinessHours(store_id, time_period, status_records, filtered) ==
    IF filtered.raised
    THEN Locals("except", calculate_except, status_records, filtered.records,
                <<>>, <<>>, 0, 0)
    ELSE IF filtered.records = <<>>
    THEN Locals("no_business_hours_records", <<Zero, Zero>>,
                status_records, <<>>, <<>>, <<>>, 0, 0)
    ELSE CalcWindow(store_id, time_period, status_records, filtered.records,
                    Get(MAX_TIMESTAMP), Timedelta(time_period))

\* from "if not status_records" on
CalcRecords(store_id, time_period, status_records) ==
    IF status_records = <<>>
    THEN Locals("no_records", <<Zero, Zero>>, <<>>, <<>>, <<>>, <<>>, 0, 0)
    ELSE CalcBusinessHours(store_id, time_period, status_records,
                           FilterLoop(store_id, status_records, 1, <<>>))

calculate_uptime_downtime(store_id, time_period) ==
    CalcRecords(store_id, time_period, StatusRecords(store_id))

-----------------------------------------------------------------------------
(* generate_report: the dict built for one store.                          *)

\* quotient q and remainder r of a division by den, to the nearest
\* integer, halves to the even neighbour
RoundHalfEven(q, r, den) ==
    IF 2 * r > den THEN q + 1
    ELSE IF 2 * r < den THEN q
    ELSE IF q % 2 = 0 THEN q ELSE q + 1

RoundDiv(num, den) ==
    RoundHalfEven(num \div den, num - (num \div den) * den, den)

\* mutant: the third decimal is cut off
Round2Truncated(x) == (100 * x.num) \div x.den

\* round(x, 2), in hundredths
Round2(x) == RoundDiv(100 * x.num, x.den)

ReportRow(store_id, hour, day, week) ==
    [store_id |-> store_id,
     uptime_last_hour |-> Round2(hour[1]),
     uptime_last_day |-> Round2(day[1]),
     uptime_last_week |-> Round2(week[1]),
     downtime_last_hour |-> Round2(hour[2]),
     downtime_last_day |-> Round2(day[2]),
     downtime_last_week |-> Round2(week[2])]

\* the three calls of a pass of the loop and the dict built from them
RowOfStore(store_id) ==
    ReportRow(store_id,
              calculate_uptime_downtime(store_id, "hour").ret,
              calculate_uptime_downtime(store_id, "day").ret,
              calculate_uptime_downtime(store_id, "week").ret)

\* db.query(StoreStatus.store_id).distinct(): each id once, in the order
\* of its first row
RECURSIVE Distinct(_, _)
Distinct(rows, seen) ==
    IF rows = <<>> THEN <<>>
    ELSE IF Head(rows).store_id \in seen THEN Distinct(Tail(rows), seen)
    ELSE <<Head(rows).store_id>>
           \o Distinct(Tail(rows), seen \cup {Head(rows).store_id})

StoreIdsOf(table) == Distinct(table, {})

-----------------------------------------------------------------------------
(* The CSV files the model imports.                                        *)

StoreIds == {"s1", "s2"}
Statuses == {"active", "inactive"}

Monday == DaysPerWeek    \* the date of the Monday the samples fall on
MaxRows == 4    \* rows of store_status.csv
MaxCallRows == 2

\* Monday 09:00, 12:00, 16:00, 17:00 and Tuesday 02:00, UTC
SampleInstants ==
    <<At(Monday, 9, 0), At(Monday, 12, 0), At(Monday, 16, 0),
      At(Monday, 17, 0), At(Monday + 1, 2, 0)>>

Absent == [store_id |-> "", status |-> ""]

\* one optional row per instant, at most max_rows rows in all
Samplings(instants, present, max_rows) ==
    {f \in [1..Len(instants) -> present \cup {Absent}] :
        Cardinality({i \in DOMAIN f : f[i] # Absent}) <= max_rows}

\* the rows of a sampling from instant i on, the newest first
RECURSIVE RowsOf(_, _, _)
RowsOf(instants, f, i) ==
    IF i > Len(instants) THEN <<>>
    ELSE RowsOf(instants, f, i + 1)
         \o (IF f[i] = Absent THEN <<>>
             ELSE <<[store_id |-> f[i].store_id,
                     timestamp_utc |-> instants[i],
                     status |-> f[i].status]>>)

StatusFiles ==
    {RowsOf(SampleInstants, f, 1) :
        f \in Samplings(SampleInstants,
                        [store_id : StoreIds, status : Statuses], MaxRows)}

Str(a, b, c, d, e) == <<a, b, c, d, e>>

HoursRow(store_id, day_of_week, start_time_local, end_time_local) ==
    [store_id |-> store_id, day_of_week |-> day_of_week,
     start_time_local |-> start_time_local,
     end_time_local |-> end_time_local]

T0000 == Str("0", "0", ":", "0", "0")
T0200 == Str("0", "2", ":", "0", "0")
T0600 == Str("0", "6", ":", "0", "0")
T0900 == Str("0", "9", ":", "0", "0")
T1600 == Str("1", "6", ":", "0", "0")
T1630 == Str("1", "6", ":", "3", "0")
T1700 == Str("1", "7", ":", "0", "0")
T2200 == Str("2", "2", ":", "0", "0")
T2359 == Str("2", "3", ":", "5", "9")
T090000 == T0900 \o <<":", "0", "0">>
T170000 == T1700 \o <<":", "0", "0">>

\* s1 has Monday 09:00-17:00 only; s2 has Tuesday 00:00-02:00
HoursMonday ==
    <<HoursRow("s1", 0, T0900, T1700), HoursRow("s2", 1, T0000, T0200)>>
\* s1 has Monday 16:00-16:30 (and a second Monday row later in the table)
\* and Tuesday 22:00-06:00
HoursShort ==
    <<HoursRow("s1", 0, T1600, T1630), HoursRow("s1", 1, T2200, T0600),
      HoursRow("s1", 0, T0000, T2359)>>
\* s1 has Monday with seconds in the strings, which "%H:%M" rejects; s2
\* has Monday 00:00-23:59
HoursMalformed ==
    <<HoursRow("s1", 0, T090000, T170000), HoursRow("s2", 0, T0000, T2359)>>

HoursFiles == {<<>>, HoursMonday, HoursShort, HoursMalformed}

TimezoneRow(store_id, timezone_str) ==
    [store_id |-> store_id, timezone_str |-> timezone_str]

TimezoneUtc == <<TimezoneRow("s2", "Asia/Tokyo"), TimezoneRow("s1", "UTC")>>
TimezoneUnknown == <<TimezoneRow("s1", "Mars/Olympus")>>

TimezoneFiles == {<<>>, TimezoneUtc, TimezoneUnknown}

-----------------------------------------------------------------------------
(* Reports.  uuid4 draws the report ids; report_<id>.csv is named by its   *)
(* id.                                                                     *)

ReportIds == {"r1", "r2"}

\* a row of table reports
Report(status, csv_file_path) ==
    [status |-> status, csv_file_path |-> csv_file_path]

\* the locals of one generate_report task; pc is "none" before the task
\* is added, then "queued", "rows", "csv", "update" or "except", and
\* "done" at the end.  provider_failure records that a query of the engine
\* failed in a pass of the loop.
Task(task_pc, task_store_ids, task_report_data, provider_failure) ==
    [pc |-> task_pc, store_ids |-> task_store_ids,
     report_data |-> task_report_data,
     provider_failure |-> provider_failure]

NoTask == Task("none", <<>>, <<>>, FALSE)

-----------------------------------------------------------------------------
(* Actions.                                                                *)

Init ==
    /\ store_status = <<>>
    /\ store_hours = <<>>
    /\ store_timezone = <<>>
    /\ MAX_TIMESTAMP = None
    /\ imported = FALSE
    /\ pc = "idle"
    /\ store_ids = <<>>
    /\ report_data = <<>>
    /\ calls = None
    /\ call = None
    /\ reports = [report_id \in ReportIds |-> None]
    /\ files = [report_id \in ReportIds |-> None]
    /\ tasks = [report_id \in ReportIds |-> NoTask]
    /\ response = None

\* mutant: the earliest timestamp of the file
MinTimestamp(rows) ==
    IF rows = <<>> THEN None
    ELSE Some(CHOOSE t \in {rows[i].timestamp_utc : i \in 1..Len(rows)} :
                  \A i \in 1..Len(rows) : t <= rows[i].timestamp_utc)

\* store_status_df['timestamp_utc'].max()
MaxTimestamp(rows) ==
    IF rows = <<>> THEN None
    ELSE Some(CHOOSE t \in {rows[i].timestamp_utc : i \in 1..Len(rows)} :
                  \A i \in 1..Len(rows) : rows[i].timestamp_utc <= t)

\* startup_event: import_csv_data reads the three files
import_csv_data(status_files, hours_files, timezone_files) ==
    /\ ~imported
    /\ \E status_csv \in status_files, hours_csv \in hours_files,
          timezone_csv \in timezone_files :
           /\ store_status' = status_csv
           /\ store_hours' = hours_csv
           /\ store_timezone' = timezone_csv
           /\ MAX_TIMESTAMP' = MaxTimestamp(status_csv)
    /\ imported' = TRUE
    /\ UNCHANGED <<pc, store_ids, report_data, calls, call, jobs>>

ImportCsvData == import_csv_data(StatusFiles, HoursFiles, TimezoneFiles)

tables == <<store_status, store_hours, store_timezone, MAX_TIMESTAMP,
            imported>>

\* generate_report starts: the store ids are queried, report_data = []
GenerateReportStart ==
    /\ imported
    /\ pc = "idle"
    /\ pc' = "running"
    /\ store_ids' = StoreIdsOf(store_status)
    /\ report_data' = <<>>
    /\ calls' = None
    /\ UNCHANGED <<tables, call, jobs>>

\* the body of the loop: the three calls made, the dict is appended
AppendRow(store_id, hour, day, week) ==
    /\ calls' = Some([store_id |-> store_id, hour |-> hour, day |-> day,
                      week |-> week])
    /\ report_data' =
           Append(report_data,
                  ReportRow(store_id, hour.ret, day.ret, week.ret))

\* one pass of the loop over store_ids: three calls and one row
GenerateReportRow ==
    /\ pc = "running"
    /\ store_ids # <<>>
    /\ AppendRow(Head(store_ids),
                 calculate_uptime_downtime(Head(store_ids), "hour"),
                 calculate_uptime_downtime(Head(store_ids), "day"),
                 calculate_uptime_downtime(Head(store_ids), "week"))
    /\ store_ids' = Tail(store_ids)
    /\ pc' = pc
    /\ UNCHANGED <<tables, call, jobs>>

\* the loop is over
GenerateReportDone ==
    /\ pc = "running"
    /\ store_ids = <<>>
    /\ pc' = "done"
    /\ UNCHANGED <<tables, store_ids, report_data, calls, call, jobs>>

Next ==
    \/ ImportCsvData
    \/ GenerateReportStart
    \/ GenerateReportRow
    \/ GenerateReportDone

Spec == Init /\ [][Next]_vars

-----------------------------------------------------------------------------
(* The engine's functions called directly, on a database imported from a   *)
(* second, smaller family of files.                                        *)

\* Monday 09:00 and 17:00, Tuesday 02:00, UTC
CallSampleInstants ==
    <<At(Monday, 9, 0), At(Monday, 17, 0), At(Monday + 1, 2, 0)>>

CallStatusFiles ==
    {RowsOf(CallSampleInstants, f, 1) :
        f \in Samplings(CallSampleInstants,
                        [store_id : StoreIds, status : {"active"}],
                        MaxCallRows)}

\* s1 has Monday and Tuesday 22:00-06:00
HoursOvernight ==
    <<HoursRow("s1", 0, T2200, T0600), HoursRow("s1", 1, T2200, T0600)>>

CallHoursFiles == {<<>>, HoursMonday, HoursOvernight, HoursMalformed}

\* the instants is_store_open is asked about, UTC
CallInstants ==
    {At(Monday, 8, 59), At(Monday, 9, 0), At(Monday, 12, 0),
     At(Monday, 17, 0), At(Monday, 17, 1), At(Monday, 21, 59),
     At(Monday, 22, 0), At(Monday, 23, 0), At(Monday + 1, 0, 30),
     At(Monday + 1, 5, 59), At(Monday + 1, 6, 0), At(Monday + 1, 6, 1)}

TimePeriods == {"hour", "day", "week", "month"}

ImportCallCsvData ==
    import_csv_data(CallStatusFiles, CallHoursFiles, TimezoneFiles)

IsStoreOpen ==
    /\ imported
    /\ \E store_id \in StoreIds, timestamp_utc \in CallInstants :
           call' = Some([fn |-> "is_store_open",
                         store_id |-> store_id,
                         timestamp_utc |-> timestamp_utc,
                         outcome |-> is_store_open_outcome(
                                         store_id, timestamp_utc)])
    /\ UNCHANGED <<tables, pc, store_ids, report_data, calls, jobs>>

CalculateUptimeDowntime ==
    /\ imported
    /\ \E store_id \in StoreIds, time_period \in TimePeriods :
           call' = Some([fn |-> "calculate_uptime_downtime",
                         store_id |-> store_id,
                         time_period |-> time_period,
                         locals |-> calculate_uptime_downtime(
                                        store_id, time_period)])
    /\ UNCHANGED <<tables, pc, store_ids, report_data, calls, jobs>>

CallNext == ImportCallCsvData \/ IsStoreOpen \/ CalculateUptimeDowntime

SpecCalls == Init /\ [][CallNext]_vars

-----------------------------------------------------------------------------
(* calculate_uptime_downtime called on samples that share timestamps.  The *)
(* query orders by timestamp_utc alone, so rows of equal timestamp come    *)
(* back in an order the database chooses.                                  *)

MaxSampleRows == 3

\* Monday 09:00, 16:30 twice, and 17:00, UTC
TieSampleInstants ==
    <<At(Monday, 9, 0), At(Monday, 16, 30), At(Monday, 16, 30),
      At(Monday, 17, 0)>>

TieStatusFiles ==
    {RowsOf(TieSampleInstants, f, 1) :
        f \in Samplings(TieSampleInstants,
                        [store_id : {"s1"}, status : Statuses],
                        MaxSampleRows)}

ImportTieCsvData ==
    import_csv_data(TieStatusFiles, {<<>>, HoursMonday}, {TimezoneUtc})

\* rows taken in the order p
Reordered(rows, p) == [i \in 1..Len(rows) |-> rows[p[i]]]

\* the results the query of lines 177-179 may give: the store's rows in
\* every order that is ascending in timestamp_utc
TimestampOrders(store_id) ==
    {records \in {Reordered(StatusRecords(store_id), p) :
                     p \in Permutations(1..Len(StatusRecords(store_id)))} :
        \A i \in 1..(Len(records) - 1) :
            records[i].timestamp_utc <= records[i + 1].timestamp_utc}

QueryAndCalculate ==
    /\ imported
    /\ \E store_id \in StoreIds, time_period \in TimePeriods :
           \E status_records \in TimestampOrders(store_id) :
               call' = Some([fn |-> "calculate_uptime_downtime",
                             store_id |-> store_id,
                             time_period |-> time_period,
                             locals |-> CalcRecords(store_id, time_period,
                                                    status_records)])
    /\ UNCHANGED <<tables, pc, store_ids, report_data, calls, jobs>>

TieNext == ImportTieCsvData \/ QueryAndCalculate

SpecTies == Init /\ [][TieNext]_vars

-----------------------------------------------------------------------------
(* The HTTP endpoints and the background task.  trigger_report and         *)
(* get_report are each one step; generate_report runs in a worker thread,  *)
(* a step per database or file operation, so tasks of several reports      *)
(* interleave.  A database operation or a file write either succeeds or    *)
(* raises, chosen by the environment.                                      *)

\* one sample of s1; a sample of each of s2 and s1
JobStatusFiles ==
    {<<>>,
     <<[store_id |-> "s1", timestamp_utc |-> At(Monday, 17, 0),
        status |-> "active"]>>,
     <<[store_id |-> "s2", timestamp_utc |-> At(Monday, 17, 0),
        status |-> "active"],
       [store_id |-> "s1", timestamp_utc |-> At(Monday, 16, 0),
        status |-> "active"]>>}

ImportJobCsvData ==
    import_csv_data(JobStatusFiles, {HoursMonday}, {TimezoneUtc})

\* an answer: the status code, and the "status" key of a JSON body, the
\* detail of an HTTPException, or the report whose file is sent
Answer(status_code, status, detail, file) ==
    [status_code |-> status_code, status |-> status, detail |-> detail,
     file |-> file]

Json(status) == Answer(200, status, "", None)
FileResponse(report_id) == Answer(200, "", "", Some(report_id))
HTTPException(status_code, detail) == Answer(status_code, "", detail, None)

\* a response sent: the answer, and what the try of the endpoint raised,
\* if it raised
Responded(endpoint, report_id, raised, answer) ==
    Some([endpoint |-> endpoint, report_id |-> report_id, raised |-> raised,
          answer |-> answer])

\* trigger_report: the record is committed with status Running, then the
\* task is added; a raise is answered with 500
TriggerReport ==
    /\ imported
    /\ \E report_id \in ReportIds, committed \in BOOLEAN :
           /\ reports[report_id] = None
           /\ tasks[report_id].pc = "none"
           /\ IF committed
              THEN /\ reports' = [reports EXCEPT ![report_id] =
                                     Some(Report("Running", None))]
                   /\ tasks' = [tasks EXCEPT ![report_id] =
                                   Task("queued", <<>>, <<>>, FALSE)]
                   /\ response' = Responded("trigger_report", report_id, None,
                                            Json("triggered"))
              ELSE /\ response' =
                          Responded("trigger_report", report_id,
                                    Some(HTTPException(500, "OperationalError")),
                                    HTTPException(500,
                                                  "Failed to trigger report"))
                   /\ UNCHANGED <<reports, tasks>>
    /\ UNCHANGED <<tables, pc, store_ids, report_data, calls, call, files>>

\* what a step of a task leaves alone
TaskFrame == <<tables, pc, store_ids, report_data, calls, call, response>>

\* generate_report, to the query of the store ids
GenerateReportQuery(report_id) ==
    /\ tasks[report_id].pc = "queued"
    /\ \E queried \in BOOLEAN :
           tasks' = [tasks EXCEPT ![report_id] =
                        IF queried
                        THEN Task("rows", StoreIdsOf(store_status), <<>>,
                                  FALSE)
                        ELSE Task("except", <<>>, <<>>, FALSE)]
    /\ UNCHANGED <<TaskFrame, reports, files>>

\* calculate_uptime_downtime when its first query raises: the except
\* clause returns 0, 0
ProviderFailed ==
    Locals("except", calculate_except, <<>>, <<>>, <<>>, <<>>, 0, 0)

\* the row of a pass in which the engine's queries raise
FailedRow(store_id) ==
    ReportRow(store_id, ProviderFailed.ret, ProviderFailed.ret,
              ProviderFailed.ret)

\* the task after a pass of the loop
AfterPass(task, row, provider_failure) ==
    Task("rows", Tail(task.store_ids), Append(task.report_data, row),
         task.provider_failure \/ provider_failure)

\* generate_report: one pass of the loop over store_ids
GenerateReportPass(report_id) ==
    /\ tasks[report_id].pc = "rows"
    /\ tasks[report_id].store_ids # <<>>
    /\ \E available \in BOOLEAN :
           tasks' = [tasks EXCEPT ![report_id] =
                        IF available
                        THEN AfterPass(tasks[report_id],
                                       RowOfStore(Head(tasks[report_id].store_ids)),
                                       FALSE)
                        ELSE AfterPass(tasks[report_id],
                                       FailedRow(Head(tasks[report_id].store_ids)),
                                       TRUE)]
    /\ UNCHANGED <<TaskFrame, reports, files>>

\* the content of a report file: fully written or cut short by a raise,
\* and the rows it holds
FileContent(written, rows) == [written |-> written, rows |-> rows]

\* generate_report: the loop is over, the CSV file is opened and written;
\* open may raise, and a write may raise and leave a partial file
GenerateReportCsv(report_id) ==
    /\ tasks[report_id].pc = "rows"
    /\ tasks[report_id].store_ids = <<>>
    /\ \E outcome \in {"written", "open_raises", "write_raises"} :
           /\ files' =
                  CASE outcome = "written" ->
                           [files EXCEPT ![report_id] =
                               Some(FileContent("complete",
                                                tasks[report_id].report_data))]
                    [] outcome = "write_raises" ->
                           [files EXCEPT ![report_id] =
                               Some(FileContent("partial", <<>>))]
                    [] outcome = "open_raises" -> files
           /\ tasks' = [tasks EXCEPT ![report_id].pc =
                           IF outcome = "written" THEN "update" ELSE "except"]
    /\ UNCHANGED <<TaskFrame, reports>>

\* mutant: the path is not stored
CompleteWithoutPath(report_id) == Report("Complete", None)

\* the record once the file is written
Complete(report_id) == Report("Complete", Some(report_id))

\* generate_report: the record is queried, set Complete with the path and
\* committed; a raise leads to the except clause, the table unchanged
GenerateReportUpdate(report_id) ==
    /\ tasks[report_id].pc = "update"
    /\ \E committed \in BOOLEAN :
           IF committed
           THEN /\ reports' = [reports EXCEPT ![report_id] =
                                  IF reports[report_id] # None
                                  THEN Some(Complete(report_id))
                                  ELSE None]
                /\ tasks' = [tasks EXCEPT ![report_id].pc = "done"]
           ELSE /\ tasks' = [tasks EXCEPT ![report_id].pc = "except"]
                /\ UNCHANGED reports
    /\ UNCHANGED <<TaskFrame, files>>

\* generate_report, the except clause: the record is queried, set Failed
\* and committed; a raise in there is passed over
GenerateReportExcept(report_id) ==
    /\ tasks[report_id].pc = "except"
    /\ \E committed \in BOOLEAN :
           reports' = [reports EXCEPT ![report_id] =
                          IF committed /\ reports[report_id] # None
                          THEN Some(Report("Failed",
                                           Get(reports[report_id]).csv_file_path))
                          ELSE reports[report_id]]
    /\ tasks' = [tasks EXCEPT ![report_id].pc = "done"]
    /\ UNCHANGED <<TaskFrame, files>>

generate_report(report_id) ==
    \/ GenerateReportQuery(report_id)
    \/ GenerateReportPass(report_id)
    \/ GenerateReportCsv(report_id)
    \/ GenerateReportUpdate(report_id)
    \/ GenerateReportExcept(report_id)

\* the file of a Complete report is removed from the disk by someone else
RemoveFile ==
    /\ \E report_id \in ReportIds :
           /\ reports[report_id] # None
           /\ Get(reports[report_id]).status = "Complete"
           /\ files[report_id] # None
           /\ files' = [files EXCEPT ![report_id] = None]
    /\ UNCHANGED <<tables, pc, store_ids, report_data, calls, call, reports,
                   tasks, response>>

\* an id no report was created with
UnknownId == "r0"

\* the body of the try of get_report: it returns an answer or raises
GetReturns(answer) == [raised |-> FALSE, answer |-> answer]
GetRaises(answer) == [raised |-> TRUE, answer |-> answer]

\* "if report.status == ..." on
GetReportStatus(report_id, report) ==
    IF report.status = "Running" THEN GetReturns(Json("Running"))
    ELSE IF report.status = "Complete"
    THEN IF report.csv_file_path # None
            /\ files[Get(report.csv_file_path)] # None
         THEN GetReturns(FileResponse(Get(report.csv_file_path)))
         ELSE GetRaises(HTTPException(500, "Report file not found"))
    ELSE IF report.status = "Failed" THEN GetReturns(Json("Failed"))
    ELSE GetReturns(Json("Unknown"))

\* "if not report" on
GetReportRecord(report_id, report) ==
    IF report = None THEN GetRaises(HTTPException(404, "Report not found"))
    ELSE GetReportStatus(report_id, Get(report))

get_report_try(report_id, queried) ==
    IF ~queried THEN GetRaises(HTTPException(500, "OperationalError"))
    ELSE GetReportRecord(report_id,
                         IF report_id \in ReportIds THEN reports[report_id]
                         ELSE None)

\* "except Exception as e": HTTPException is an Exception, so whatever the
\* try raised is logged and replaced
get_report_except(outcome) == HTTPException(500, "Failed to get report")

GetReportAnswer(report_id, outcome) ==
    Responded("get_report", report_id,
              IF outcome.raised THEN Some(outcome.answer) ELSE None,
              IF outcome.raised THEN get_report_except(outcome)
              ELSE outcome.answer)

get_report(report_id, queried) ==
    GetReportAnswer(report_id, get_report_try(report_id, queried))

GetReport ==
    /\ imported
    /\ \E report_id \in ReportIds \cup {UnknownId}, queried \in BOOLEAN :
           response' = get_report(report_id, queried)
    /\ UNCHANGED <<tables, pc, store_ids, report_data, calls, call, reports,
                   files, tasks>>

GenerateReportTask == \E report_id \in ReportIds : generate_report(report_id)

JobsNext ==
    \/ ImportJobCsvData
    \/ TriggerReport
    \/ GenerateReportTask
    \/ RemoveFile
    \/ GetReport

SpecJobs == Init /\ [][JobsNext]_vars

\* a worker thread that can take a step takes it in the end
FairSpecJobs ==
    SpecJobs /\ \A report_id \in ReportIds : WF_vars(generate_report(report_id))

-----------------------------------------------------------------------------
(* Properties.  A row value is in hundredths: Decimal(7, 0) is 7.00.       *)

Decimal(whole, hundredths) == 100 * whole + hundredths

Rows(store_id) ==
    {report_data[i] : i \in {j \in 1..Len(report_data) :
                                report_data[j].store_id = store_id}}

SamplesOf(store_id) ==
    {[timestamp_utc |-> store_status[i].timestamp_utc,
      status |-> store_status[i].status] :
        i \in {j \in 1..Len(store_status) :
                  store_status[j].store_id = store_id}}

HoursOf(store_id) ==
    LET Match(r) == r.store_id = store_id
    IN  SelectSeq(store_hours, Match)

\* the end-to-end scenario: s1 in zone UTC, Monday 09:00-17:00 its only
\* schedule entry, three samples on the Monday, now = Monday 17:00
Scenario ==
    /\ TimezoneRecord("s1") = Some(TimezoneRow("s1", "UTC"))
    /\ HoursOf("s1") = <<HoursRow("s1", 0, T0900, T1700)>>
    /\ SamplesOf("s1") =
           {[timestamp_utc |-> At(Monday, 9, 0), status |-> "active"],
            [timestamp_utc |-> At(Monday, 12, 0), status |-> "active"],
            [timestamp_utc |-> At(Monday, 16, 0), status |-> "inactive"]}
    /\ MAX_TIMESTAMP = Some(At(Monday, 17, 0))

\* C1 as stated: in the scenario the row of s1 has uptime_last_hour = 0,
\* downtime_last_hour = 60, uptime_last_day = 7.0, downtime_last_day = 1.0.
C1_AsStated ==
    Scenario =>
        \A r \in Rows("s1") :
            /\ r.uptime_last_hour = Decimal(0, 0)
            /\ r.downtime_last_hour = Decimal(60, 0)
            /\ r.uptime_last_day = Decimal(7, 0)
            /\ r.downtime_last_day = Decimal(1, 0)

\* C1 amended: in the scenario the row of s1 has uptime_last_hour = 0 and
\* uptime_last_day = 7.0, and the downtimes are those of whole dates:
\* downtime_last_hour = 480 (Monday's 480 business minutes) and
\* downtime_last_day = 25.0 (Sunday's 1440 plus Monday's 480, less 420).
C1_EndToEnd ==
    Scenario =>
        \A r \in Rows("s1") :
            /\ r.uptime_last_hour = Decimal(0, 0)
            /\ r.downtime_last_hour = Decimal(480, 0)
            /\ r.uptime_last_day = Decimal(7, 0)
            /\ r.downtime_last_day = Decimal(25, 0)

C1_Witness == Scenario /\ Rows("s1") # {}

\* the calculate_uptime_downtime calls of the last pass of generate_report
\* that ran to the final return
PassCalls ==
    IF calls = None THEN {}
    ELSE {[store_id |-> Get(calls).store_id, time_period |-> p[1],
           locals |-> p[2]] :
             p \in {<<"hour", Get(calls).hour>>, <<"day", Get(calls).day>>,
                    <<"week", Get(calls).week>>}}

Returned == {c \in PassCalls : c.locals.exit = "return"}

Now == Get(MAX_TIMESTAMP)
WindowStart(time_period) == Now - Get(Timedelta(time_period))

\* the sum of f[x] over the domain of f
RECURSIVE Sum(_)
Sum(f) ==
    IF DOMAIN f = {} THEN 0
    ELSE LET x == CHOOSE y \in DOMAIN f : TRUE
         IN  f[x] + Sum([y \in DOMAIN f \ {x} |-> f[y]])

Range(seq) == {seq[i] : i \in 1..Len(seq)}

\* the samples of a store that is_store_open keeps and the window holds
InWindowSamples(c) ==
    {r \in Range(store_status) :
        /\ r.store_id = c.store_id
        /\ is_store_open(c.store_id, r.timestamp_utc)
        /\ r.timestamp_utc >= WindowStart(c.time_period)}

Chronological(seq) ==
    \A i \in 1..(Len(seq) - 1) : seq[i].timestamp_utc <= seq[i + 1].timestamp_utc

\* the forward-fill sum over a sequence of samples
ForwardFill(seq, window_end) ==
    Sum([i \in {j \in 1..Len(seq) : seq[j].status = "active"} |->
            (IF i < Len(seq) THEN seq[i + 1].timestamp_utc ELSE window_end)
              - seq[i].timestamp_utc])

StatusesOf(seq) == [i \in 1..Len(seq) |-> seq[i].status]

\* C2: the samples the uptime loop walks are the in-window business-hours
\* samples in chronological order, and the uptime in minutes is the sum,
\* over the active ones, of the next sample's timestamp (now for the last)
\* minus its own; active, inactive, active gives (t1 - t0) + (now - t2).
C2_ForwardFill ==
    \A c \in Returned :
        LET seq == c.locals.period_records
        IN  /\ Range(seq) = InWindowSamples(c)
            /\ Len(seq) = Cardinality(InWindowSamples(c))
            /\ Chronological(seq)
            /\ c.locals.uptime_minutes = ForwardFill(seq, Now)
            /\ c.locals.ret[1].num = c.locals.uptime_minutes
            /\ StatusesOf(seq) = <<"active", "inactive", "active">> =>
                   c.locals.uptime_minutes =
                       (seq[2].timestamp_utc - seq[1].timestamp_utc)
                         + (Now - seq[3].timestamp_utc)

C2_Witness ==
    \E c \in Returned :
        LET seq == c.locals.period_records
        IN  /\ StatusesOf(seq) = <<"active", "inactive", "active">>
            /\ seq[3].timestamp_utc < Now
            /\ c.locals.uptime_minutes > 0

LastRow == report_data[Len(report_data)]

\* C3: the downtime returned is the business minutes of the window minus
\* the uptime, in the unit of the uptime, with no clamping: it is negative
\* whenever the uptime exceeds the business minutes, and the row's
\* downtime_last_hour is that difference.
C3_DowntimeDerivation ==
    \A c \in Returned :
        LET l == c.locals
        IN  /\ l.ret[2].num = l.total_business_minutes - l.ret[1].num
            /\ l.ret[2].den = l.ret[1].den
            /\ l.ret[1].num > l.total_business_minutes => l.ret[2].num < 0
            /\ c.time_period = "hour" =>
                   LastRow.downtime_last_hour =
                       Decimal(l.total_business_minutes - l.uptime_minutes, 0)

C3_Witness ==
    \E c \in Returned :
        /\ c.time_period = "hour"
        /\ c.locals.ret[1].num > c.locals.total_business_minutes
        /\ LastRow.downtime_last_hour < 0

\* the budget of a date: 1440 without an entry for its weekday, else the
\* length of the entry, wrapped over midnight when start > end
Budget(store_id, date) ==
    LET entry == HoursRecord(store_id, Weekday(date))
    IN  IF entry = None THEN 1440
        ELSE LET start == TimeValue(strptime_HM(Get(entry).start_time_local))
                 end == TimeValue(strptime_HM(Get(entry).end_time_local))
             IN  IF start <= end THEN end - start
                 ELSE (1440 - start) + end

\* C4: the business minutes of a window are the sum, over every date from
\* start.date() to now.date() inclusive, of the budget of the date, added
\* in full however little of the date the window holds.
C4_BusinessMinutes ==
    \A c \in Returned :
        c.locals.total_business_minutes =
            Sum([date \in Date(WindowStart(c.time_period))..Date(Now) |->
                    Budget(c.store_id, date)])

\* an hour window that is charged the 480 minutes of an overnight entry
C4_Witness ==
    \E c \in Returned :
        /\ c.time_period = "hour"
        /\ HoursRecord(c.store_id, Weekday(Date(Now))) # None
        /\ Budget(c.store_id, Date(Now)) = (1440 - 22 * 60) + 6 * 60
        /\ c.locals.total_business_minutes = 480

\* the zone is_store_open resolves for a store
LocalZone(store_id) == pytz_timezone(TimezoneStr(TimezoneRecord(store_id)))

\* the dates a, a + 1, ..., b in order
DatesFromTo(a, b) == [i \in 1..(b - a + 1) |-> a + i - 1]

\* C5: the dates the accumulator sums are the local dates of the window's
\* endpoints in the store's time zone, from the start's to now's, so that
\* the weekday of each is the weekday is_store_open consults.
C5_LocalDates ==
    \A c \in Returned :
        LocalZone(c.store_id).ok =>
            c.locals.dates =
                DatesFromTo(
                    Date(astimezone(WindowStart(c.time_period),
                                    LocalZone(c.store_id))),
                    Date(astimezone(Now, LocalZone(c.store_id))))

\* the is_store_open call last made directly, if any
IsOpenCalls ==
    IF call = None THEN {}
    ELSE IF Get(call).fn = "is_store_open" THEN {Get(call)} ELSE {}

\* the calculate_uptime_downtime call last made directly, if any
CalcCalls ==
    IF call = None THEN {}
    ELSE IF Get(call).fn = "calculate_uptime_downtime" THEN {Get(call)}
    ELSE {}

LocalTimeOf(store_id, timestamp_utc) ==
    astimezone(timestamp_utc, LocalZone(store_id))

\* the schedule entry of the local weekday of an instant
EntryOf(store_id, timestamp_utc) ==
    HoursRecord(store_id, Weekday(Date(LocalTimeOf(store_id, timestamp_utc))))

StartOf(entry) == strptime_HM(Get(entry).start_time_local)
EndOf(entry) == strptime_HM(Get(entry).end_time_local)

\* the zone resolves and the local weekday has an entry whose strings parse
EntryPresent(store_id, timestamp_utc) ==
    /\ LocalZone(store_id).ok
    /\ EntryOf(store_id, timestamp_utc) # None
    /\ StartOf(EntryOf(store_id, timestamp_utc)).ok
    /\ EndOf(EntryOf(store_id, timestamp_utc)).ok

HM(hour, minute) == hour * 60 + minute

\* C6: with an entry (start, end) for the instant's local weekday,
\* is_store_open is true iff start <= localTime <= end when start <= end,
\* and iff localTime >= start or localTime <= end when start > end; for
\* 22:00-06:00 the local times 23:00, 00:30, 05:59 are open and 12:00,
\* 21:59 are closed.
C6_BusinessHoursDecision ==
    \A c \in IsOpenCalls :
        EntryPresent(c.store_id, c.timestamp_utc) =>
            LET start == TimeValue(StartOf(EntryOf(c.store_id, c.timestamp_utc)))
                end == TimeValue(EndOf(EntryOf(c.store_id, c.timestamp_utc)))
                localTime == TimeOfDay(LocalTimeOf(c.store_id, c.timestamp_utc))
            IN  /\ ~c.outcome.raised
                /\ start <= end =>
                       (c.outcome.value <=>
                            (start <= localTime /\ localTime <= end))
                /\ start > end =>
                       (c.outcome.value <=>
                            (localTime >= start \/ localTime <= end))
                /\ (start = HM(22, 0) /\ end = HM(6, 0)) =>
                       /\ localTime \in {HM(23, 0), HM(0, 30), HM(5, 59)} =>
                              c.outcome.value
                       /\ localTime \in {HM(12, 0), HM(21, 59)} =>
                              ~c.outcome.value

\* 00:30 local under a 22:00-06:00 entry: open by the wrap
C6_Witness ==
    \E c \in IsOpenCalls :
        /\ EntryPresent(c.store_id, c.timestamp_utc)
        /\ TimeValue(StartOf(EntryOf(c.store_id, c.timestamp_utc))) = HM(22, 0)
        /\ TimeValue(EndOf(EntryOf(c.store_id, c.timestamp_utc))) = HM(6, 0)
        /\ TimeOfDay(LocalTimeOf(c.store_id, c.timestamp_utc)) = HM(0, 30)
        /\ c.outcome.value

\* C7: is_store_open is true for every instant whose local weekday has no
\* schedule entry for the store, and a store with no schedule entries at
\* all is open at every instant.
C7_MissingScheduleOpen ==
    \A c \in IsOpenCalls :
        /\ (LocalZone(c.store_id).ok
              /\ EntryOf(c.store_id, c.timestamp_utc) = None) =>
               c.outcome = Returns(TRUE)
        /\ HoursOf(c.store_id) = <<>> => c.outcome = Returns(TRUE)

\* a store that has a schedule, asked about a weekday the schedule lacks
C7_Witness ==
    \E c \in IsOpenCalls :
        /\ LocalZone(c.store_id).ok
        /\ HoursOf(c.store_id) # <<>>
        /\ EntryOf(c.store_id, c.timestamp_utc) = None
        /\ c.outcome.value

\* resolving the zone or parsing a string of the consulted entry fails
ResolutionFails(store_id, timestamp_utc) ==
    \/ ~LocalZone(store_id).ok
    \/ /\ EntryOf(store_id, timestamp_utc) # None
       /\ \/ ~StartOf(EntryOf(store_id, timestamp_utc)).ok
          \/ ~EndOf(EntryOf(store_id, timestamp_utc)).ok

\* C8: when resolving the zone or parsing a schedule string fails for a
\* sample, is_store_open returns true without raising, the filtering loop
\* keeps the sample, and it goes on to the samples after it, keeping
\* those is_store_open accepts.
C8_FailOpen ==
    \A c \in PassCalls :
        \A i \in 1..Len(c.locals.status_records) :
            ResolutionFails(c.store_id,
                            c.locals.status_records[i].timestamp_utc) =>
                /\ is_store_open_outcome(
                       c.store_id,
                       c.locals.status_records[i].timestamp_utc)
                     = Returns(TRUE)
                /\ c.locals.status_records[i]
                     \in Range(c.locals.business_hours_records)
                /\ ~(c.locals.exit = "except" /\ c.locals.dates = <<>>)
                /\ \A j \in (i + 1)..Len(c.locals.status_records) :
                       is_store_open(c.store_id,
                                     c.locals.status_records[j].timestamp_utc)
                         => c.locals.status_records[j]
                              \in Range(c.locals.business_hours_records)

\* a sample whose entry has a malformed string, then a sample on a weekday
\* without an entry: both kept
C8_Witness ==
    \E c \in PassCalls :
        /\ Len(c.locals.status_records) >= 2
        /\ LocalZone(c.store_id).ok
        /\ ResolutionFails(c.store_id,
                           c.locals.status_records[1].timestamp_utc)
        /\ ~ResolutionFails(c.store_id,
                            c.locals.status_records[2].timestamp_utc)
        /\ c.locals.business_hours_records = c.locals.status_records

\* the minutes from a to b - 1 at which the store is scheduled open
OpenMinutes(store_id, a, b) ==
    Cardinality({m \in a..(b - 1) : is_store_open(store_id, m)})

\* the scheduled-open minutes that follow the active samples of a call, each
\* up to the next retained sample, or to now for the last
ActiveOpenMinutes(c) ==
    Sum([i \in {j \in 1..Len(c.locals.period_records) :
                   c.locals.period_records[j].status = "active"} |->
            OpenMinutes(c.store_id,
                        c.locals.period_records[i].timestamp_utc,
                        NextTime(c.locals.period_records, i, Now))])

\* C9: the uptime of a window counts only time at which the store is
\* scheduled open: it is at most the scheduled-open minutes between each
\* active sample and the next retained sample (or now).
C9_UptimeWithinBusinessHours ==
    \A c \in Returned : c.locals.uptime_minutes <= ActiveOpenMinutes(c)

\* the samples of a store that is_store_open keeps and that are no older
\* than now - delta
RecentOpenSamples(store_id, time_period) ==
    {r \in Range(store_status) :
        /\ r.store_id = store_id
        /\ is_store_open(store_id, r.timestamp_utc)
        /\ r.timestamp_utc >= WindowStart(time_period)}

\* C10: a store with no status samples gets (0, 0) for every window, and a
\* window in which no business-hours sample has timestamp >= now - delta
\* gets (0, 0): its business minutes are not reported as downtime.
C10_EmptyInputZeros ==
    \A c \in CalcCalls :
        /\ SamplesOf(c.store_id) = {} => c.locals.ret = <<Zero, Zero>>
        /\ (c.time_period \in {"hour", "day", "week"}
              /\ RecentOpenSamples(c.store_id, c.time_period) = {}) =>
               c.locals.ret = <<Zero, Zero>>

\* a store with business-hours samples, all of them older than the window
C10_Witness ==
    \E c \in CalcCalls :
        /\ c.time_period = "hour"
        /\ c.locals.business_hours_records # <<>>
        /\ RecentOpenSamples(c.store_id, c.time_period) = {}
        /\ c.locals.ret = <<Zero, Zero>>

\* the latest timestamp_utc of the whole store_status table
LatestSample ==
    CHOOSE t \in {r.timestamp_utc : r \in Range(store_status)} :
        \A r \in Range(store_status) : r.timestamp_utc <= t

DeltaOf(time_period) ==
    CASE time_period = "hour" -> 60
      [] time_period = "day" -> 24 * 60
      [] time_period = "week" -> 7 * 24 * 60

\* C11: now is the maximum timestamp over all samples of all stores, no
\* sample is later than now, and every call of a report run, for every
\* store and each of the three windows, works on [now - delta, now] with
\* delta = 1 hour, 24 hours, 7 days: it retains the business-hours samples
\* from now - delta on, sums the dates from that of now - delta to that of
\* now, and carries the last active sample forward to now.
C11_SharedNow ==
    (imported /\ store_status # <<>>) =>
        /\ MAX_TIMESTAMP = Some(LatestSample)
        /\ \A r \in Range(store_status) : r.timestamp_utc <= Get(MAX_TIMESTAMP)
        /\ \A c \in PassCalls :
               /\ Range(c.locals.period_records) =
                      {r \in Range(c.locals.business_hours_records) :
                          /\ LatestSample - DeltaOf(c.time_period)
                               <= r.timestamp_utc
                          /\ r.timestamp_utc <= LatestSample}
               /\ c.locals.exit = "return" =>
                      /\ c.locals.dates =
                             DatesFromTo(
                                 Date(LatestSample - DeltaOf(c.time_period)),
                                 Date(LatestSample))
                      /\ c.locals.uptime_minutes =
                             ForwardFill(c.locals.period_records, LatestSample)

\* a store whose own latest sample is older than now and active: it is
\* carried forward to the other store's latest sample
C11_Witness ==
    \E c \in Returned :
        LET seq == c.locals.period_records
        IN  /\ seq[Len(seq)].status = "active"
            /\ \A r \in SamplesOf(c.store_id) : r.timestamp_utc < LatestSample
            /\ c.locals.uptime_minutes >= LatestSample - seq[Len(seq)].timestamp_utc
            /\ LatestSample - seq[Len(seq)].timestamp_utc > 0

Abs(x) == IF x < 0 THEN 0 - x ELSE x

\* v hundredths is the multiple of 0.01 nearest to num / den
NearestHundredths(v, x) == 2 * Abs(100 * x.num - v * x.den) <= x.den

\* C12: the hour window returns the uptime and downtime minutes unchanged,
\* the day and week windows return each minute value divided by 60, and
\* each of the six values of the row is its own returned value rounded to
\* 2 decimals.
C12_UnitConversion ==
    /\ \A c \in Returned :
           LET uptime == c.locals.uptime_minutes
               downtime == c.locals.total_business_minutes
                             - c.locals.uptime_minutes
           IN  IF c.time_period = "hour"
               THEN c.locals.ret = <<Frac(uptime, 1), Frac(downtime, 1)>>
               ELSE c.locals.ret = <<Frac(uptime, 60), Frac(downtime, 60)>>
    /\ calls # None =>
           /\ LastRow.uptime_last_hour = 100 * Get(calls).hour.ret[1].num
           /\ LastRow.downtime_last_hour = 100 * Get(calls).hour.ret[2].num
           /\ NearestHundredths(LastRow.uptime_last_day, Get(calls).day.ret[1])
           /\ NearestHundredths(LastRow.downtime_last_day,
                                Get(calls).day.ret[2])
           /\ NearestHundredths(LastRow.uptime_last_week,
                                Get(calls).week.ret[1])
           /\ NearestHundredths(LastRow.downtime_last_week,
                                Get(calls).week.ret[2])

\* a week whose downtime in hours has a third decimal that rounds up
C12_Witness ==
    /\ calls # None
    /\ Get(calls).week.exit = "return"
    /\ Get(calls).week.ret[2].den = 60
    /\ LastRow.downtime_last_week * 60 > 100 * Get(calls).week.ret[2].num
    /\ Get(calls).day.exit = "return"
    /\ LastRow.downtime_last_day * 60 < 100 * Get(calls).day.ret[2].num

\* the row value of a window
RowValues(row, time_period) ==
    CASE time_period = "hour" ->
             <<row.uptime_last_hour, row.downtime_last_hour>>
      [] time_period = "day" -> <<row.uptime_last_day, row.downtime_last_day>>
      [] time_period = "week" ->
             <<row.uptime_last_week, row.downtime_last_week>>

RowOf(store_id) ==
    ReportRow(store_id,
              calculate_uptime_downtime(store_id, "hour").ret,
              calculate_uptime_downtime(store_id, "day").ret,
              calculate_uptime_downtime(store_id, "week").ret)

\* C13: when the computation of a window of a store raises, the two values
\* of that window are 0 in the store's row; every row of the finished run
\* is the row its store gets on its own, raising stores before it or not;
\* and the finished run has one row per store id.
C13_FailureIsolation ==
    /\ \A c \in PassCalls :
           c.locals.exit = "except" =>
               RowValues(LastRow, c.time_period) = <<0, 0>>
    /\ pc = "done" =>
           /\ \A i \in 1..Len(report_data) :
                  report_data[i] = RowOf(report_data[i].store_id)
           /\ [i \in 1..Len(report_data) |-> report_data[i].store_id]
                = StoreIdsOf(store_status)

\* s1 raised in a window, and the row of s2 after it has its uptime
C13_Witness ==
    /\ pc = "done"
    /\ Len(report_data) = 2
    /\ report_data[1].store_id = "s1"
    /\ calculate_uptime_downtime("s1", "day").exit = "except"
    /\ RowValues(report_data[1], "day") = <<0, 0>>
    /\ report_data[2].store_id = "s2"
    /\ report_data[2].uptime_last_day > 0

StatusOf(report_id) ==
    IF reports[report_id] = None THEN "" ELSE Get(reports[report_id]).status

\* C14: when a query of the engine fails during a report run, the run fails:
\* its report is never marked Complete, and is Failed once the run is over.
C14_ProviderFailureFatal ==
    \A report_id \in ReportIds :
        tasks[report_id].provider_failure =>
            /\ StatusOf(report_id) # "Complete"
            /\ tasks[report_id].pc = "done" => StatusOf(report_id) = "Failed"

\* C15: under fair scheduling of the task, a report that was created gets
\* status Complete or Failed in the end, whatever step of its generation
\* raises.
C15_EventuallyTerminal ==
    \A report_id \in ReportIds :
        (StatusOf(report_id) = "Running")
          ~> (StatusOf(report_id) \in {"Complete", "Failed"})

\* a record exists before its task does, and a Complete record has its path
LifecycleInvariant ==
    \A report_id \in ReportIds :
        /\ tasks[report_id].pc # "none" => reports[report_id] # None
        /\ StatusOf(report_id) \in {"", "Running", "Complete", "Failed"}
        /\ StatusOf(report_id) = "Complete" =>
               Get(reports[report_id]).csv_file_path = Some(report_id)

\* what a step may do to the record of a report
LifecycleStep ==
    \A report_id \in ReportIds :
        /\ (reports[report_id] = None /\ reports'[report_id] # None) =>
               /\ StatusOf(report_id)' = "Running"
               /\ tasks[report_id].pc = "none"
               /\ tasks'[report_id].pc = "queued"
        /\ (reports[report_id] # None
              /\ reports'[report_id] # reports[report_id]) =>
               /\ StatusOf(report_id) = "Running"
               /\ StatusOf(report_id)' \in {"Complete", "Failed"}
               /\ StatusOf(report_id)' = "Complete" =>
                      /\ files[report_id] # None
                      /\ Get(files[report_id]).written = "complete"
                      /\ Get(reports'[report_id]).csv_file_path
                           = Some(report_id)
        /\ tasks'[report_id] # tasks[report_id] =>
               \A other \in ReportIds \ {report_id} :
                   reports'[other] = reports[other]

\* C16: a report is created Running by trigger_report before its task
\* starts; its status changes at most once, from Running to Complete or
\* Failed, and never after; when it becomes Complete the path is set and
\* the file is already fully written; and a step of a task changes only the
\* record of its own report.
C16_Lifecycle == []LifecycleInvariant /\ [][LifecycleStep]_vars

\* two reports generated at the same time, one Complete, one Failed
C16_Witness ==
    /\ StatusOf("r1") = "Complete"
    /\ files["r1"] # None
    /\ StatusOf("r2") = "Failed"
    /\ tasks["r1"].pc = "done"
    /\ tasks["r2"].pc = "done"

GetReportResponses ==
    IF response = None THEN {}
    ELSE IF Get(response).endpoint = "get_report" THEN {Get(response)}
    ELSE {}

\* C17: when get_report finds no record it answers 404 "Report not found",
\* and when the file of a Complete report is missing it answers with detail
\* "Report file not found": the outer handler leaves both as raised.
C17_NotFoundResponses ==
    \A r \in GetReportResponses :
        /\ r.raised = Some(HTTPException(404, "Report not found")) =>
               r.answer = HTTPException(404, "Report not found")
        /\ r.raised = Some(HTTPException(500, "Report file not found")) =>
               r.answer.detail = "Report file not found"

\* the calculate_uptime_downtime calls made directly that ran to the final
\* return
ReturnedCalls == {c \in CalcCalls : c.locals.exit = "return"}

\* the samples of a sequence that are no older than the window start
FromWindowStart(records, time_period) ==
    LET Recent(r) == r.timestamp_utc >= WindowStart(time_period)
    IN  SelectSeq(records, Recent)

\* C18: samples older than now - delta have no effect on a window: the call
\* returns what it returns for the store's samples from now - delta on
\* alone, and the time from the window start to the first retained sample
\* gives no uptime, whatever the last sample before the window was.
C18_NoCarryIn ==
    \A c \in CalcCalls :
        c.time_period \in {"hour", "day", "week"} =>
            /\ c.locals.ret =
                   CalcRecords(c.store_id, c.time_period,
                               FromWindowStart(c.locals.status_records,
                                               c.time_period)).ret
            /\ c.locals.exit = "return" =>
                   c.locals.uptime_minutes
                     <= Now - c.locals.period_records[1].timestamp_utc

\* the last sample before the window was active, the first sample in the
\* window comes after the window start
C18_Witness ==
    \E c \in ReturnedCalls :
        /\ \E r \in Range(c.locals.business_hours_records) :
               /\ r.timestamp_utc < WindowStart(c.time_period)
               /\ r.status = "active"
        /\ c.locals.period_records[1].timestamp_utc
             > WindowStart(c.time_period)
        /\ c.locals.uptime_minutes
             = Now - c.locals.period_records[1].timestamp_utc
        /\ c.locals.uptime_minutes > 0

\* every retained sample with time after it, up to the next one or to now
\* for the last, is active
ActiveThroughout(period_records) ==
    \A i \in 1..Len(period_records) :
        (IF i < Len(period_records)
         THEN period_records[i + 1].timestamp_utc
         ELSE Now) > period_records[i].timestamp_utc
            => period_records[i].status = "active"

\* C19: 0 <= uptime <= now - (timestamp of the first retained sample of the
\* window) <= delta, so the hour, day and week uptimes are at most 60
\* minutes, 24 hours and 168 hours; the uptime equals now - first timestamp
\* exactly when every retained sample with a positive gap after it is
\* active.
C19_UptimeBounds ==
    /\ \A c \in ReturnedCalls :
           LET first == c.locals.period_records[1].timestamp_utc
               uptime == c.locals.uptime_minutes
           IN  /\ 0 <= uptime
               /\ uptime <= Now - first
               /\ Now - first <= DeltaOf(c.time_period)
               /\ (uptime = Now - first)
                    <=> ActiveThroughout(c.locals.period_records)
    /\ \A c \in CalcCalls :
           /\ 0 <= c.locals.ret[1].num
           /\ c.time_period = "hour" => c.locals.ret[1].num <= 60
           /\ c.time_period = "day" =>
                  c.locals.ret[1].num <= 24 * c.locals.ret[1].den
           /\ c.time_period = "week" =>
                  c.locals.ret[1].num <= 168 * c.locals.ret[1].den

\* a day window whose first sample is inactive and whose second is active:
\* the uptime is positive and short of now - first
C19_Witness ==
    \E c \in ReturnedCalls :
        /\ Len(c.locals.period_records) >= 2
        /\ c.locals.period_records[1].status = "inactive"
        /\ c.locals.uptime_minutes > 0
        /\ c.locals.uptime_minutes
             < Now - c.locals.period_records[1].timestamp_utc

\* C20: when samples of a store share a timestamp, the uptime and downtime
\* of a window are the same for every order in which the query returns the
\* samples of equal timestamp.
C20_TieOrderIndependent ==
    \A c \in CalcCalls :
        \A other \in TimestampOrders(c.store_id) :
            CalcRecords(c.store_id, c.time_period, other).ret = c.locals.ret

=============================================================================
